---- MODULE Spec2Model ----
(***************************************************************************)
(* Model of remove_bg.py: a Flask application with a user table            *)
(* (Flask-SQLAlchemy over SQLite), cookie sessions (Flask + Flask-Login),  *)
(* forms with a CSRF token (Flask-WTF), and an upload handler that stores  *)
(* an image and its background-removed counterpart.                        *)
(*                                                                         *)
(* Each request handler is one action, or a short chain of actions where   *)
(* the handler touches shared state (the database, the file system) more   *)
(* than once, so that concurrent requests interleave between those steps.  *)
(* The variable `last` is the response produced by the step just taken     *)
(* (NoResp when the step did not finish a request).  regs and revoked are  *)
(* history: the credentials each row was registered with and the cookies a *)
(* logout has completed for; so are the fields fresh, rival, again, others *)
(* and raced of a request in progress.                                     *)
(***************************************************************************)
EXTENDS Integers, Sequences, FiniteSets, TLC

\* ---------------------------------------------------------------- bounds
MaxUsers == 2
MaxRestarts == 1
MaxInFlight == 2

\* ----------------------------------------------------- program constants
MinUsername == 3
MaxUsername == 30
MinPassword == 6
UPLOAD_FOLDER == "static/uploads"
PROCESSED_FOLDER == "static/processed"

\* bcrypt looks at the first 72 bytes of a password.
BcryptMax == 72

\* The bytes of a PNG before its image data (signature, IHDR, length and
\* tag of IDAT) and after it (CRC, IEND), and the buffer of an open file.
PngHeadLen == 41
PngEndLen == 16
BufferSize == 4096

\* ---------------------------------------------------------- input domains
Missing == "<missing>"

RECURSIVE Repeat(_, _)
Repeat(ch, n) == IF n = 0 THEN "" ELSE ch \o Repeat(ch, n - 1)

Blanks == {Repeat(" ", n) : n \in 1..MinPassword}
Blank == Repeat(" ", MinPassword)
LongHead == Repeat("a", BcryptMax)
LongTails == {"X", "Y"}
LongX == LongHead \o "X"
LongY == LongHead \o "Y"

Usernames == {"al", "alice", "bob"}
LocalParts == {"alice", "bob"}
Domains == {"x.com"}
Emails == {"alice@x.com", "bob@x.com", "bad"}
Passwords == {"secret1", "pw"}
Salts == {"s1"}
Clients == {"c1", "c2"}
OneClient == {"c1"}
Workers == 1..MaxInFlight
\* app.root_path, the directory of remove_bg.py (line 22), and the
\* directories the process may be started in.
RootPath == "/app"
Cwds == {RootPath, "/srv"}
Epochs == 0..MaxRestarts

VARIABLES created, strict, cwd, users, key, jar, files, req, last, regs, revoked

vars == <<created, strict, cwd, users, key, jar, files, req, last, regs, revoked>>

\* ---------------------------------------------------------------- sessions
\* A session cookie: the payload's _user_id (0 when absent), whether the
\* payload holds a csrf_token, and the key it is signed with.  A browser
\* without a cookie is Token(0, k, FALSE).
Token(uid, k, csrf) == [uid |-> uid, key |-> k, csrf |-> csrf]

\* open_session: a cookie whose signature does not verify under SECRET_KEY
\* is dropped and the request starts from an empty session.
OpenSession(tok, k) == IF tok.key = k THEN tok ELSE Token(0, k, FALSE)

\* Constructing a FlaskForm puts a csrf_token in the session if it has none.
WithCsrf(sess) == [sess EXCEPT !.csrf = TRUE]

\* load_user resolves the session's _user_id to a row:
\* User.query.get(int(user_id)).  The result is the id of current_user, 0
\* for the anonymous user (no query is made for a session without _user_id).
LoadUserMutant(tok, tbl, k) ==
    IF tok.uid \in 1..Len(tbl) THEN tok.uid ELSE 0

LoadUser(tok, tbl, k) ==
    IF tok.key = k /\ tok.uid \in 1..Len(tbl) THEN tok.uid ELSE 0

CurrentUser(c) == LoadUser(jar[c], users, key)

\* ------------------------------------------------------ form validators
\* str.strip() of a value: a value made of spaces only becomes empty.
Strip(v) == IF v \in Blanks THEN "" ELSE v

\* wtforms DataRequired: the field is present and not empty once stripped.
DataRequired(v) == v /= Missing /\ Strip(v) /= ""

\* wtforms Length(min, max).
LengthOK(v, lo, hi) == Len(v) >= lo /\ Len(v) <= hi

\* wtforms Email: local part, one "@", a dotted domain (over the input alphabet).
IsEmail(v) == \E l \in LocalParts, d \in Domains : v = l \o "@" \o d

\* The csrf_token a form page carries: the session's, signed under the key
\* of the time the page is rendered.
CsrfToken(k) == "csrf." \o ToString(k)

\* FlaskForm's csrf_token field: the submitted token must be signed under
\* SECRET_KEY and match the csrf_token of the session (a.csrf is Missing
\* for a request without the field, a GET among them).
CsrfOK(a, sess, k) == a.csrf = CsrfToken(k) /\ sess.key = k /\ sess.csrf

\* LoginForm: the fields whose validators fail.
LoginFormErrors(a, sess, k) ==
    {f \in {"csrf_token"} : ~CsrfOK(a, sess, k)}
    \cup {f \in {"email"} : ~(DataRequired(a.email) /\ IsEmail(a.email))}
    \cup {f \in {"password"} : ~DataRequired(a.password)}

\* RegistrationForm: the fields whose validators fail.
RegistrationFormErrors(a, sess, k) ==
    {f \in {"csrf_token"} : ~CsrfOK(a, sess, k)}
    \cup {f \in {"username"} : ~(DataRequired(a.username)
                                 /\ LengthOK(a.username, MinUsername, MaxUsername))}
    \cup {f \in {"email"} : ~(DataRequired(a.email) /\ IsEmail(a.email))}
    \cup {f \in {"password"} : ~(DataRequired(a.password)
                                 /\ Len(a.password) >= MinPassword)}
    \cup {f \in {"confirm_password"} : ~(DataRequired(a.confirm)
                                         /\ a.confirm = a.password)}

\* ------------------------------------------------------ password hashing
\* The bytes of a password bcrypt uses: the first 72.
Truncate(p) ==
    IF Len(p) <= BcryptMax THEN p
    ELSE CHOOSE h \in {LongHead} : \E t \in LongTails : p = h \o t

\* Releases of the bcrypt package from 5.0 on raise ValueError for a
\* password of more than 72 bytes, earlier ones truncate it; which release
\* is installed (strict: one that raises) is not fixed by the source.
MayRaise(p) == strict /\ Len(p) > BcryptMax

\* bcrypt.generate_password_hash: a salted digest, never the plaintext.
GeneratePasswordHash(p, salt) ==
    [alg |-> "$2b$", salt |-> salt, sum |-> <<salt, Truncate(p)>>]

\* bcrypt.check_password_hash: re-hash the candidate under the digest's salt.
CheckPasswordHash(digest, p) == digest = GeneratePasswordHash(p, digest.salt)

\* ------------------------------------------------------------- user table
\* User.query.filter_by(email=e).first(): the id of the row, 0 for None.
FindByEmail(tbl, e) ==
    IF \E i \in 1..Len(tbl) : tbl[i].email = e
    THEN CHOOSE i \in 1..Len(tbl) : tbl[i].email = e
    ELSE 0

\* The table's constraints for a row stored under id (unique=True, nullable=False).
ConstraintsOKMutant(tbl, id, row) ==
    /\ row.username /= Missing
    /\ row.email /= Missing

ConstraintsOKEmailOnly(tbl, id, row) ==
    /\ row.username /= Missing
    /\ row.email /= Missing
    /\ \A j \in 1..Len(tbl) : j /= id => tbl[j].email /= row.email

ConstraintsOK(tbl, id, row) ==
    /\ row.username /= Missing
    /\ row.email /= Missing
    /\ \A j \in 1..Len(tbl) : j /= id => tbl[j].username /= row.username
    /\ \A j \in 1..Len(tbl) : j /= id => tbl[j].email /= row.email

\* ---------------------------------------------------------------- responses
NoFlash == <<>>
NoIdentity == [username |-> Missing, email |-> Missing]
NoUrls == [original_image_url |-> "", processed_image_url |-> ""]
NoForm == [email |-> Missing]
NoResp == [op |-> "none"]
Idle == [pc |-> "idle"]

\* What the caller gets back: the page or redirect, the flashed message, the
\* identity or the URLs the page shows, the address the login form is
\* rendered with again (line 86 passes the submitted form to the template;
\* its field errors are the template's business).  `of` is the request the
\* response answers, when it ran in a worker.
Resp(op, view, flash) ==
    [op |-> op, view |-> view, flash |-> flash, fault |-> FALSE,
     shown |-> NoIdentity, urls |-> NoUrls, form |-> NoForm, of |-> Idle]

\* The handler raised: Flask answers an unhandled exception with status 500.
Fault(op, exc) ==
    [op |-> op, view |-> "500:" \o exc, flash |-> NoFlash, fault |-> TRUE,
     shown |-> NoIdentity, urls |-> NoUrls, form |-> NoForm, of |-> Idle]

\* login_manager.unauthorized(): flash and redirect to login_view.
Unauthorized(op) ==
    Resp(op, "redirect:login", <<"message", "Please log in to access this page.">>)

\* The views decorated with @login_required.
GatedOps == {"upload", "profile", "edit_profile", "logout"}

\* ------------------------------------------------------------------- Init
\* Lines 22-35.  The source never creates the user table (no
\* db.create_all()): users.db holds one only if something outside the
\* source has created it.  Without it every statement on User raises
\* OperationalError.  Nor does it fix the release of bcrypt, or the
\* directory the process is started in: the folders of lines 23-24 are
\* relative to it.
Init ==
    /\ created \in BOOLEAN
    /\ strict \in BOOLEAN
    /\ cwd \in Cwds
    /\ users = <<>>
    /\ key = 0
    /\ jar = [c \in Clients |-> Token(0, 0, FALSE)]
    /\ files = <<>>
    /\ req = [w \in Workers |-> Idle]
    /\ last = NoResp
    /\ regs = <<>>
    /\ revoked = {}

\* The process is started in the directory of remove_bg.py.
InitAtHome == Init /\ cwd = RootPath

\* The start with a release of bcrypt that raises.
InitStrict == Init /\ strict

InitStrictAtHome == InitStrict /\ cwd = RootPath

\* ------------------------------------------------------------------- gate
\* @login_required on upload_image, profile, edit_profile and logout: when
\* current_user is not authenticated the view is not called and the request
\* is answered by login_manager.unauthorized().  Its flash writes to the
\* session, so the response sets the cookie: the browser keeps its session
\* if the cookie verified and gets a new empty one if it did not.  The
\* actions of the four views below are the requests that passed.
LoginRequired(c, op) ==
    /\ CurrentUser(c) = 0
    /\ last' = Unauthorized(op)
    /\ jar' = [jar EXCEPT ![c] = OpenSession(jar[c], key)]
    /\ UNCHANGED <<created, strict, cwd, users, key, files, req, regs, revoked>>

\* ------------------------------------------------------------------ login
\* Line 79: a row was found (id /= 0) and the password matches its digest.
CredentialsOK(tbl, id, p) == id /= 0 /\ CheckPasswordHash(tbl[id].password, p)

\* Lines 83-86: one flash and the login page, whatever the reason (id is the
\* row found, 0 for none; the code does not look at it).
LoginFailed(id, a) ==
    [Resp("login", "login.html", <<"danger", "Login failed. Check email and password.">>)
     EXCEPT !.form = [email |-> a.email]]

\* login_user(user): the session now carries the user's id.
LoginUser(sess, id) == [sess EXCEPT !.uid = id]

\* Lines 71-86.  A request whose form does not validate (a GET among them)
\* gets the login page; the form made on line 76 has put a csrf_token in
\* the session, which the response sets as the browser's cookie.
Login(c, a) ==
    LET sess == OpenSession(jar[c], key)
        id == FindByEmail(users, a.email)
    IN /\ UNCHANGED <<created, strict, cwd, users, key, files, req, regs>>
       /\ IF CurrentUser(c) /= 0
          THEN /\ last' = Resp("login", "redirect:upload_image", NoFlash)
               /\ UNCHANGED <<jar, revoked>>
          ELSE IF LoginFormErrors(a, sess, key) /= {}
          THEN /\ last' = [Resp("login", "login.html", NoFlash)
                           EXCEPT !.form = [email |-> a.email]]
               /\ jar' = [jar EXCEPT ![c] = WithCsrf(sess)]
               /\ UNCHANGED revoked
          ELSE IF ~created
          THEN /\ last' = Fault("login", "OperationalError")
               /\ UNCHANGED <<jar, revoked>>
          ELSE IF id /= 0 /\ MayRaise(a.password)
          THEN /\ last' = Fault("login", "ValueError")
               /\ UNCHANGED <<jar, revoked>>
          ELSE IF CredentialsOK(users, id, a.password)
          THEN /\ jar' = [jar EXCEPT ![c] = LoginUser(sess, id)]
               /\ revoked' = revoked \ {jar'[c]}
               /\ last' = Resp("login", "redirect:upload_image",
                               <<"success", "Login successful!">>)
          ELSE /\ last' = LoginFailed(id, a)
               /\ jar' = [jar EXCEPT ![c] = sess]
               /\ UNCHANGED revoked

\* ----------------------------------------------------------------- logout
\* logout_user(): _user_id is popped from the session and the response
\* carries the new cookie.  Nothing is recorded on the server.
LogoutUser(sess) == [sess EXCEPT !.uid = 0]

Logout(c) ==
    /\ CurrentUser(c) /= 0
    /\ UNCHANGED <<created, strict, cwd, users, key, files, req, regs>>
    /\ jar' = [jar EXCEPT ![c] = LogoutUser(jar[c])]
    /\ revoked' = revoked \cup {jar[c]}
    /\ last' = Resp("logout", "redirect:login", NoFlash)

\* ---------------------------------------------------------------- profile
\* profile.html shows current_user.username and current_user.email.
Profile(c) ==
    /\ CurrentUser(c) /= 0
    /\ UNCHANGED <<created, strict, cwd, users, key, jar, files, req, regs, revoked>>
    /\ last' = [Resp("profile", "profile.html", NoFlash)
                EXCEPT !.shown = [username |-> users[CurrentUser(c)].username,
                                  email |-> users[CurrentUser(c)].email]]

\* ---------------------------------------------------------------- workers
\* A request that has to wait for the database or the file system runs in
\* a worker; which one is immaterial, so a new request takes the first idle.
IsFree(w) == req[w] = Idle /\ \A v \in Workers : v < w => req[v] /= Idle

\* --------------------------------------------------------------- register
Pending == {w \in Workers : req[w].pc = "reg_commit"}

\* History: the registration asks for an email and a username that no row
\* of the table holds.
Fresh(tbl, a) ==
    \A i \in 1..Len(tbl) : tbl[i].email /= a.email /\ tbl[i].username /= a.username

\* Lines 91-97: the guard, the form, the digest and the new User object.
\* A request whose form does not validate (a GET among them) gets the page
\* with the form; the form made on line 94 has put a csrf_token in the
\* session, which the response sets as the browser's cookie.
RegisterBegin(w, c, a) ==
    LET sess == OpenSession(jar[c], key)
    IN /\ IsFree(w)
       /\ UNCHANGED <<created, strict, cwd, users, key, files, regs, revoked>>
       /\ IF CurrentUser(c) /= 0
          THEN /\ last' = Fault("register", "BuildError")
               /\ UNCHANGED <<req, jar>>
          ELSE IF RegistrationFormErrors(a, sess, key) /= {}
          THEN /\ last' = Resp("register", "login.html", NoFlash)
               /\ jar' = [jar EXCEPT ![c] = WithCsrf(sess)]
               /\ UNCHANGED req
          ELSE IF MayRaise(a.password)
          THEN /\ last' = [Fault("register", "ValueError")
                           EXCEPT !.of = [pc |-> "reg_hash", plain |-> a.password,
                                          fresh |-> Fresh(users, a),
                                          row |-> [username |-> a.username,
                                                   email |-> a.email]]]
               /\ UNCHANGED <<req, jar>>
          ELSE /\ Len(users) + Cardinality(Pending) < MaxUsers
               /\ \E salt \in Salts :
                    req' = [req EXCEPT ![w] =
                              [pc |-> "reg_commit", c |-> c, sess |-> sess,
                               plain |-> a.password, fresh |-> Fresh(users, a),
                               rival |-> 0,
                               row |-> [username |-> a.username, email |-> a.email,
                                        password |->
                                            GeneratePasswordHash(a.password, salt)]]]
               /\ last' = NoResp
               /\ UNCHANGED jar

\* Two rows that could not both be in the table.
Clash(r1, r2) == r1.email = r2.email \/ r1.username = r2.username

\* History: a registration still waiting to commit notes the id of the row
\* a concurrent registration of the same email or username has just created.
Beaten(w, id, row) ==
    [v \in Workers |->
        IF v = w THEN Idle
        ELSE IF req[v].pc = "reg_commit" /\ Clash(req[v].row, row)
        THEN [req[v] EXCEPT !.rival = id]
        ELSE req[v]]

\* Lines 98-101: INSERT and COMMIT; the table's constraints are checked by
\* the database inside the statement.  Neither an OperationalError (no
\* table) nor an IntegrityError is caught.  The view does not call
\* login_user; its flash writes to the session the request arrived with,
\* and the response sets that session as the browser's cookie.
RegisterCommitMutant(w) ==
    LET r == req[w]
        id == Len(users) + 1
        cred == [email |-> r.row.email, password |-> r.plain]
    IN /\ r.pc = "reg_commit"
       /\ UNCHANGED <<created, strict, cwd, key, files, revoked>>
       /\ IF ~created
          THEN /\ last' = [Fault("register", "OperationalError") EXCEPT !.of = r]
               /\ req' = [req EXCEPT ![w] = Idle]
               /\ UNCHANGED <<users, regs, jar>>
          ELSE IF ConstraintsOK(users, id, r.row)
          THEN /\ users' = Append(users, r.row)
               /\ jar' = [jar EXCEPT ![r.c] = LoginUser(r.sess, id)]
               /\ req' = Beaten(w, id, r.row)
               /\ regs' = Append(regs, cred)
               /\ last' = [Resp("register", "redirect:login",
                                <<"success", "Account created successfully!">>)
                           EXCEPT !.of = r]
          ELSE /\ last' = [Fault("register", "IntegrityError") EXCEPT !.of = r]
               /\ req' = [req EXCEPT ![w] = Idle]
               /\ UNCHANGED <<users, regs, jar>>

RegisterCommit(w) ==
    LET r == req[w]
        id == Len(users) + 1
        cred == [email |-> r.row.email, password |-> r.plain]
    IN /\ r.pc = "reg_commit"
       /\ UNCHANGED <<created, strict, cwd, key, files, revoked>>
       /\ IF ~created
          THEN /\ last' = [Fault("register", "OperationalError") EXCEPT !.of = r]
               /\ req' = [req EXCEPT ![w] = Idle]
               /\ UNCHANGED <<users, regs, jar>>
          ELSE IF ConstraintsOK(users, id, r.row)
          THEN /\ users' = Append(users, r.row)
               /\ jar' = [jar EXCEPT ![r.c] = r.sess]
               /\ req' = Beaten(w, id, r.row)
               /\ regs' = Append(regs, cred)
               /\ last' = [Resp("register", "redirect:login",
                                <<"success", "Account created successfully!">>)
                           EXCEPT !.of = r]
          ELSE /\ last' = [Fault("register", "IntegrityError") EXCEPT !.of = r]
               /\ req' = [req EXCEPT ![w] = Idle]
               /\ UNCHANGED <<users, regs, jar>>

\* ----------------------------------------------------------- edit_profile
Unchanged == "<unchanged>"
Expired == [username |-> "<expired>", email |-> "<expired>"]

\* Lines 158-159 as the unit of work sees them: an attribute assigned the
\* value it was loaded with is not modified and is left out of the UPDATE.
Assigned(row, a) ==
    [username |-> IF a.username = row.username THEN Unchanged ELSE a.username,
     email |-> IF a.email = row.email THEN Unchanged ELSE a.email]

\* A row (or the object's attributes) with the modified attributes written.
ApplyMutant(row, set) ==
    [row EXCEPT !.username = IF set.username = Unchanged THEN @ ELSE set.username,
                !.email = IF set.email = Unchanged THEN @ ELSE set.email,
                !.password = GeneratePasswordHash("", "s1")]

Apply(row, set) ==
    [row EXCEPT !.username = IF set.username = Unchanged THEN @ ELSE set.username,
                !.email = IF set.email = Unchanged THEN @ ELSE set.email]

\* Session.rollback() expires every attribute of the objects it holds.
RollbackMutant(mem) == mem

Rollback(mem) == Expired

\* Session.commit() expires likewise (expire_on_commit).
Committed(mem) == Expired

\* Reading an attribute of current_user: an expired one is reloaded from its row.
Fetch(mem, row) ==
    IF mem = Expired THEN [username |-> row.username, email |-> row.email] ELSE mem

\* Lines 151-159: the gate loaded current_user; the form values are assigned.
\* The view reads request.form itself: no form class, no csrf_token.
EditBegin(w, c, a) ==
    /\ IsFree(w)
    /\ CurrentUser(c) /= 0
    /\ UNCHANGED <<created, strict, cwd, users, key, jar, files, regs, revoked>>
    /\ req' = [req EXCEPT ![w] =
                 [pc |-> "edit_commit", c |-> c, sess |-> jar[c],
                  uid |-> CurrentUser(c),
                  set |-> Assigned(users[CurrentUser(c)], a)]]
    /\ last' = NoResp

\* Lines 161-168: commit, or roll back and flash the failure.  Either flash
\* writes to the session the request arrived with, and the response sets
\* that session as the browser's cookie.
EditCommit(w) ==
    LET r == req[w]
        new == Apply(users[r.uid], r.set)
        mem == [username |-> new.username, email |-> new.email]
        ok == ConstraintsOK(users, r.uid, new)
    IN /\ r.pc = "edit_commit"
       /\ req' = [req EXCEPT ![w] = Idle]
       /\ UNCHANGED <<created, strict, cwd, key, files, regs, revoked>>
       /\ jar' = [jar EXCEPT ![r.c] = r.sess]
       /\ users' = IF ok THEN [users EXCEPT ![r.uid] = new] ELSE users
       /\ last' = [Resp("edit_profile", "redirect:profile",
                        IF ok THEN <<"success", "Profile updated successfully!">>
                        ELSE <<"danger", "Failed to update profile. Please try again.">>)
                   EXCEPT !.shown = Fetch(IF ok THEN Committed(mem) ELSE Rollback(mem),
                                          users'[r.uid]),
                          !.of = r]

\* ------------------------------------------------------------------ files
\* The content of an uploaded file is a sequence of blocks, a block being what one
\* buffered read takes from a file (its first block is what a reader has
\* after reading the first byte).  Block `at` of the `n` blocks of file
\* `of`; fmt is the format an image decoder finds in the first block.
Block(fmt, of, at, n) == [fmt |-> fmt, of |-> of, at |-> at, n |-> n]

\* Two images, of one and of two blocks, and a file that is no image.
ImageA == <<Block("JPEG", "A", 1, 1)>>
ImageB == <<Block("JPEG", "B", 1, 2), Block("JPEG", "B", 2, 2)>>
Junk == <<Block("", "J", 1, 2), Block("", "J", 2, 2)>>
Payloads == {ImageA, ImageB, Junk}

\* The filenames a client sends: werkzeug hands them on as sent.
Plain == {"cat.png"}
Spaced == {<<"my", "dog.png">>}
Rooted == {"tmp/x.png"}
Filenames == Plain \cup {s[1] \o " " \o s[2] : s \in Spaced} \cup {"/" \o r : r \in Rooted}
NoFilePart == [filename |-> Missing, data |-> Junk]
FileParts == {NoFilePart, [filename |-> "", data |-> Junk]}
             \cup [filename : {"cat.png"}, data : Payloads]
             \cup [filename : {"my dog.png", "/tmp/x.png"}, data : {ImageA}]

\* os.path.join(folder, name): an absolute name discards the folder.
PathJoin(folder, name) ==
    IF \E r \in Rooted : name = "/" \o r THEN name ELSE folder \o "/" \o name

\* Line 131
OutputFilename(name) == "no_bg_" \o name

\* The directories there are: lines 29-30 make the two folders, /tmp is the
\* system's.  A file can be opened for writing in a directory that exists.
Dirs == {UPLOAD_FOLDER, PROCESSED_FOLDER, "/tmp"}
BaseNames ==
    UNION {{n, OutputFilename(n)} : n \in Filenames \ {"/" \o r : r \in Rooted}}
    \cup {"x.png"}
DirExists(path) == \E d \in Dirs, b \in BaseNames : path = d \o "/" \o b

\* The names the upload view builds URLs for.
StaticNames ==
    UNION {{"uploads/" \o n, "processed/" \o OutputFilename(n)} : n \in Filenames}

\* URL quoting of a path: a space becomes %20.
Quote(f) ==
    IF \E p \in {"uploads/", "processed/", "processed/no_bg_"}, s \in Spaced :
           f = p \o s[1] \o " " \o s[2]
    THEN LET m == CHOOSE m \in {"uploads/", "processed/", "processed/no_bg_"} \X Spaced :
                      f = m[1] \o m[2][1] \o " " \o m[2][2]
         IN m[1] \o m[2][1] \o "%20" \o m[2][2]
    ELSE f

\* url_for('static', filename=f)
UrlForStatic(f) == "/static/" \o Quote(f)

\* The file a relative path names: open() resolves it against the directory
\* the process runs in.
AbsPath(dir, path) ==
    IF \E r \in Rooted : path = "/" \o r THEN path ELSE dir \o "/" \o path

\* Flask's static route, /static/<path:filename>: the file the URL is served
\* from, in the static folder of the application, which Flask(__name__)
\* puts beside remove_bg.py whatever directory the process runs in
\* (Missing when the URL leads to no file there: the route never leaves the
\* folder, and the path of a name with a leading slash is not the one the
\* file was written to).
ServedFrom(url) ==
    IF \E f \in StaticNames : url = "/static/" \o Quote(f)
                              /\ DirExists("static/" \o f)
    THEN RootPath \o "/static/"
         \o (CHOOSE f \in StaticNames : url = "/static/" \o Quote(f))
    ELSE Missing

\* open(path, "wb") and open(path, "w+b"): the file is created or emptied.
OpenForWriteMutant(fs, path) == IF path \in DOMAIN fs THEN fs ELSE (path :> <<>>) @@ fs

OpenForWrite(fs, path) == (path :> <<>>) @@ fs

\* file.save writes the upload in one raw write from the start of the file:
\* what the file holds beyond the written blocks stays.
WriteFile(fs, path, bytes) ==
    (path :> bytes \o SubSeq(fs[path], Len(bytes) + 1, Len(fs[path]))) @@ fs

\* Image.open reads the start of the file through a buffered reader: the
\* first block, which holds the image's header.
NoHeader == Block("", "", 0, 0)
Header(bytes) == IF bytes = <<>> THEN NoHeader ELSE bytes[1]

\* PIL can identify the format.
Decodable(hdr) == hdr.fmt \in {"JPEG", "PNG"}

\* Image.load, called inside remove(): the decoder takes what the reader
\* has buffered and reads the blocks that follow from the file as it is now.
Load(hdr, bytes) ==
    <<hdr>> \o SubSeq(bytes, 2, IF Len(bytes) < hdr.n THEN Len(bytes) ELSE hdr.n)

\* The data is the whole of one image.
Intact(data) ==
    /\ Len(data) = data[1].n
    /\ \A i \in 1..Len(data) : data[i].of = data[1].of /\ data[i].at = i

\* rembg.remove: the raster with its background made transparent.
Remove(data) ==
    [i \in 1..Len(data) |-> [of |-> "cutout(" \o data[i].of \o ")", at |-> i]]

\* The content of a processed file is a sequence of stretches of bytes:
\* `len` bytes of the byte string `of`, from its byte `from` on ("zeros" is
\* the string of zero bytes).  Neighbouring stretches that continue one
\* another are one stretch, so that equal contents are equal sequences.
Seg(of, from, len) == [of |-> of, from |-> from, len |-> len]
Zeros(n) == IF n = 0 THEN <<>> ELSE <<Seg("zeros", 0, n)>>

\* The number of bytes.
RECURSIVE Size(_)
Size(bytes) == IF bytes = <<>> THEN 0 ELSE bytes[1].len + Size(Tail(bytes))

\* The first n bytes.
RECURSIVE Take(_, _)
Take(bytes, n) ==
    IF n = 0 \/ bytes = <<>> THEN <<>>
    ELSE IF bytes[1].len <= n
    THEN <<bytes[1]>> \o Take(Tail(bytes), n - bytes[1].len)
    ELSE <<Seg(bytes[1].of, bytes[1].from, n)>>

\* The bytes after the first n.
RECURSIVE Drop(_, _)
Drop(bytes, n) ==
    IF n = 0 \/ bytes = <<>> THEN bytes
    ELSE IF bytes[1].len <= n
    THEN Drop(Tail(bytes), n - bytes[1].len)
    ELSE <<Seg(bytes[1].of, IF bytes[1].of = "zeros" THEN 0 ELSE bytes[1].from + n,
               bytes[1].len - n)>> \o Tail(bytes)

\* Stretch t continues stretch s.
Follows(s, t) == s.of = t.of /\ (s.of = "zeros" \/ s.from + s.len = t.from)

\* The bytes of a followed by the bytes of b.
Join(a, b) ==
    IF a = <<>> THEN b
    ELSE IF b = <<>> THEN a
    ELSE IF Follows(a[Len(a)], b[1])
    THEN SubSeq(a, 1, Len(a) - 1)
         \o <<Seg(a[Len(a)].of, a[Len(a)].from, a[Len(a)].len + b[1].len)>>
         \o Tail(b)
    ELSE a \o b

\* A raw write of a file opened for writing, at the writer's own position,
\* byte `at` (from 0): what the file holds before and beyond the written
\* bytes stays, and a file that has been emptied since reads as zeros up to
\* the position.
WriteAt(fs, path, at, bytes) ==
    LET cur == fs[path]
        before == IF at <= Size(cur) THEN Take(cur, at)
                  ELSE Join(cur, Zeros(at - Size(cur)))
        beyond == Drop(cur, at + Size(bytes))
    IN (path :> Join(Join(before, bytes), beyond)) @@ fs

\* img.save(path, format="PNG") writes the head of the file (signature, IHDR
\* with the size of the image, length and tag of IDAT), the deflated data of
\* the raster, and the end (the CRC of the data, IEND).  The size of the
\* data depends on the pixels: the strips of the cutout of B deflate to more
\* bytes than those of A and of what the decoder makes of J.
Deflated(of) ==
    CASE of = "cutout(A)" -> 3000
      [] of = "cutout(B)" -> 6000
      [] OTHER -> 2500

RECURSIVE DataLen(_)
DataLen(img) == IF img = <<>> THEN 0 ELSE Deflated(img[1].of) + DataLen(Tail(img))

\* The name of the byte string: the PNG of a raster is a string of its
\* own, down to the head, which has the length of the data in it.
RECURSIVE PngName(_)
PngName(img) ==
    IF Len(img) = 1 THEN img[1].of ELSE img[1].of \o "," \o PngName(Tail(img))

EncodePNG(img) ==
    <<Seg("png(" \o PngName(img) \o ")", 0, PngHeadLen + DataLen(img) + PngEndLen)>>

\* The pieces img.save hands to the file, in order.
Chunks(img) == <<PngHeadLen, DataLen(img), PngEndLen>>

\* The raw writes a buffered file makes of the pieces handed to it (lens),
\* with `held` bytes in its buffer that belong at byte `at` of the file.  A
\* piece that fits the buffer with what is held is held too; if it does
\* not, what is held goes out, and the piece goes out after it if it is
\* longer than the buffer and is held if it is not.  What is held at the
\* end goes out when the file is closed.
RECURSIVE RawWrites(_, _, _)
RawWrites(lens, at, held) ==
    LET flush == IF held = 0 THEN <<>> ELSE <<[at |-> at, len |-> held]>>
    IN IF lens = <<>> THEN flush
       ELSE IF held + lens[1] <= BufferSize
       THEN RawWrites(Tail(lens), at, held + lens[1])
       ELSE IF lens[1] > BufferSize
       THEN flush \o <<[at |-> at + held, len |-> lens[1]]>>
            \o RawWrites(Tail(lens), at + held + lens[1], 0)
       ELSE flush \o RawWrites(Tail(lens), at + held, lens[1])

\* The raw writes img.save makes on the file it has opened: the PNG of a
\* one-strip raster fits the buffer and goes out whole when the file is
\* closed; of a longer one the head goes out when the data arrives, then
\* the data, and the end when the file is closed.
SaveWrites(img) ==
    LET png == EncodePNG(img)
        w == RawWrites(Chunks(img), 0, 0)
    IN [i \in 1..Len(w) |-> [at |-> w[i].at,
                             bytes |-> Take(Drop(png, w[i].at), w[i].len)]]

\* ----------------------------------------------------------------- upload
\* The requests between the two checks and the response.
UploadPcs == {"upload_write", "upload_open", "upload_remove", "upload_save_open",
              "upload_save", "upload_render"}
Uploading == {w \in Workers : req[w].pc \in UploadPcs}

\* The request holds the file part (line 120).  History: `others` is the
\* files the request found when it started, but for the two of its own
\* filename, `again` tells that it found a processed file for its filename,
\* and an upload in progress notes in `raced` that another request has had
\* the same input_path in use since it started.
Overwritten(w, f) ==
    [v \in Workers |->
        IF v = w
        THEN [pc |-> "upload_write", filename |-> f.filename, data |-> f.data,
              again |-> PathJoin(PROCESSED_FOLDER, OutputFilename(f.filename))
                           \in DOMAIN files,
              others |-> [q \in DOMAIN files \ {PathJoin(UPLOAD_FOLDER, f.filename),
                                                 PathJoin(PROCESSED_FOLDER,
                                                          OutputFilename(f.filename))}
                            |-> files[q]],
              raced |-> \E u \in Uploading : req[u].filename = f.filename]
        ELSE IF v \in Uploading /\ req[v].filename = f.filename
        THEN [req[v] EXCEPT !.raced = TRUE]
        ELSE req[v]]

\* Lines 111-128, past the gate: the two checks on the file part, then
\* file.save opens input_path for writing.  The flash of a refused request
\* writes to the session, which is the browser's cookie already.
UploadBeginMutant(w, c, f) ==
    /\ IsFree(w)
    /\ CurrentUser(c) /= 0
    /\ UNCHANGED <<created, strict, cwd, users, key, jar, regs, revoked>>
    /\ IF f.filename = Missing
       THEN /\ last' = Resp("upload", "redirect:upload_image", <<"danger", "No file part">>)
            /\ UNCHANGED <<req, files>>
       ELSE /\ files' = OpenForWrite(files, PathJoin(UPLOAD_FOLDER, f.filename))
            /\ req' = Overwritten(w, f)
            /\ last' = NoResp

UploadBegin(w, c, f) ==
    /\ IsFree(w)
    /\ CurrentUser(c) /= 0
    /\ UNCHANGED <<created, strict, cwd, users, key, jar, regs, revoked>>
    /\ IF f.filename = Missing
       THEN /\ last' = Resp("upload", "redirect:upload_image", <<"danger", "No file part">>)
            /\ UNCHANGED <<req, files>>
       ELSE IF f.filename = ""
       THEN /\ last' = Resp("upload", "redirect:upload_image",
                            <<"danger", "No selected file">>)
            /\ UNCHANGED <<req, files>>
       ELSE /\ files' = OpenForWrite(files, PathJoin(UPLOAD_FOLDER, f.filename))
            /\ req' = Overwritten(w, f)
            /\ last' = NoResp

\* Line 128, the rest of file.save: the upload is written to the open file.
UploadWrite(w) ==
    LET r == req[w]
        path == PathJoin(UPLOAD_FOLDER, r.filename)
    IN /\ r.pc = "upload_write"
       /\ UNCHANGED <<created, strict, cwd, users, key, jar, regs, revoked>>
       /\ files' = WriteFile(files, path, r.data)
       /\ req' = [req EXCEPT ![w] = [r EXCEPT !.pc = "upload_open"]]
       /\ last' = NoResp

\* Line 134: Image.open reads the start of the file now at input_path and
\* keeps the file open.
UploadOpen(w) ==
    LET r == req[w]
        path == PathJoin(UPLOAD_FOLDER, r.filename)
        hdr == Header(files[path])
    IN /\ r.pc = "upload_open"
       /\ UNCHANGED <<created, strict, cwd, users, key, jar, files, regs, revoked>>
       /\ IF Decodable(hdr)
          THEN /\ req' = [req EXCEPT ![w] = [pc |-> "upload_remove",
                                             filename |-> r.filename, data |-> r.data,
                                             again |-> r.again, others |-> r.others, raced |-> r.raced,
                                             hdr |-> hdr]]
               /\ last' = NoResp
          ELSE /\ req' = [req EXCEPT ![w] = Idle]
               /\ last' = [Fault("upload", "UnidentifiedImageError") EXCEPT !.of = r]

\* Line 135: remove(img) loads the image, from the block Image.open has
\* read and from the file as it is now, and removes the background.  A file
\* that ends early stops the decoder (OSError); data that is not of one
\* image stops it or gives a raster made of what was read.
UploadRemove(w) ==
    LET r == req[w]
        path == PathJoin(UPLOAD_FOLDER, r.filename)
        data == Load(r.hdr, files[path])
    IN /\ r.pc = "upload_remove"
       /\ UNCHANGED <<created, strict, cwd, users, key, jar, files, regs, revoked>>
       /\ \/ /\ ~Intact(data)
             /\ req' = [req EXCEPT ![w] = Idle]
             /\ last' = [Fault("upload", "OSError") EXCEPT !.of = r]
          \/ /\ Len(data) = r.hdr.n
             /\ req' = [req EXCEPT ![w] = [pc |-> "upload_save_open",
                                           filename |-> r.filename,
                                           data |-> r.data, again |-> r.again, others |-> r.others,
                                           raced |-> r.raced,
                                           img |-> Remove(data)]]
             /\ last' = NoResp

\* Line 136, the start of img.save, once the background removal has
\* returned: output_path is opened for writing.
UploadSaveOpen(w) ==
    LET r == req[w]
        out == PathJoin(PROCESSED_FOLDER, OutputFilename(r.filename))
    IN /\ r.pc = "upload_save_open"
       /\ UNCHANGED <<created, strict, cwd, users, key, jar, regs, revoked>>
       /\ IF DirExists(out)
          THEN /\ files' = OpenForWrite(files, out)
               /\ req' = [req EXCEPT ![w] = [pc |-> "upload_save",
                                             filename |-> r.filename,
                                             data |-> r.data, again |-> r.again, others |-> r.others,
                                             raced |-> r.raced, img |-> r.img,
                                             step |-> 1]]
               /\ last' = NoResp
          ELSE /\ req' = [req EXCEPT ![w] = Idle]
               /\ last' = [Fault("upload", "FileNotFoundError") EXCEPT !.of = r]
               /\ UNCHANGED files

\* Line 136, the rest of img.save: its next raw write reaches the file;
\* the last one is made as the file is closed.
UploadSave(w) ==
    LET r == req[w]
        out == PathJoin(PROCESSED_FOLDER, OutputFilename(r.filename))
        writes == SaveWrites(r.img)
        wr == writes[r.step]
    IN /\ r.pc = "upload_save"
       /\ UNCHANGED <<created, strict, cwd, users, key, jar, regs, revoked>>
       /\ files' = WriteAt(files, out, wr.at, wr.bytes)
       /\ req' = [req EXCEPT ![w] =
                     IF r.step < Len(writes)
                     THEN [r EXCEPT !.step = r.step + 1]
                     ELSE [pc |-> "upload_render", filename |-> r.filename,
                           data |-> r.data, again |-> r.again, others |-> r.others, raced |-> r.raced,
                           img |-> r.img]]
       /\ last' = NoResp

\* Lines 139-141: both URLs are returned.
UploadRender(w) ==
    LET r == req[w]
        out == OutputFilename(r.filename)
    IN /\ r.pc = "upload_render"
       /\ UNCHANGED <<created, strict, cwd, users, key, jar, files, regs, revoked>>
       /\ req' = [req EXCEPT ![w] = Idle]
       /\ last' = [Resp("upload", "upload.html", NoFlash)
                   EXCEPT !.urls = [original_image_url |->
                                        UrlForStatic("uploads/" \o r.filename),
                                    processed_image_url |->
                                        UrlForStatic("processed/" \o out)],
                          !.of = r]

\* ------------------------------------------------------------ environment
\* The process is started again: line 25 draws a new SECRET_KEY, requests in
\* progress are lost, the database and the files stay.
Restart ==
    /\ key < MaxRestarts
    /\ key' = key + 1
    /\ req' = [w \in Workers |-> Idle]
    /\ last' = NoResp
    /\ UNCHANGED <<created, strict, cwd, users, jar, files, regs, revoked>>

\* A client presents a kept copy of a cookie it has since logged out with.
PresentCopy(c, t) ==
    /\ t \in revoked
    /\ jar[c] /= t
    /\ jar' = [jar EXCEPT ![c] = t]
    /\ last' = NoResp
    /\ UNCHANGED <<created, strict, cwd, users, key, files, req, regs, revoked>>

\* ------------------------------------------------------------------- Next
\* A GET of either form page: no field is submitted.
GetLogin == [email |-> Missing, password |-> Missing, csrf |-> Missing]
GetRegister == [username |-> Missing, email |-> Missing, password |-> Missing,
                confirm |-> Missing, csrf |-> Missing]

Alice == [username |-> "alice", email |-> "alice@x.com",
          password |-> "secret1", confirm |-> "secret1", csrf |-> CsrfToken(0)]
ValidRegisterArgs == [username : {"alice", "bob"}, email : {"alice@x.com", "bob@x.com"},
                      password : {"secret1"}, confirm : {"secret1"}, csrf : {CsrfToken(0)}]
LoginArgs ==
    [email : Emails, password : Passwords \cup {Blank, LongX, LongY}, csrf : {CsrfToken(0)}]
    \cup {[email |-> "alice@x.com", password |-> "secret1", csrf |-> Missing], GetLogin}
RegisterArgs ==
    ValidRegisterArgs
    \cup {[Alice EXCEPT !.username = "al"], [Alice EXCEPT !.email = "bad"],
          [Alice EXCEPT !.password = "pw", !.confirm = "pw"],
          [Alice EXCEPT !.confirm = "pw"],
          [Alice EXCEPT !.password = Blank, !.confirm = Blank],
          [Alice EXCEPT !.password = LongX, !.confirm = LongX],
          [Alice EXCEPT !.csrf = Missing], GetRegister}
EditArgs == [username : Usernames \cup {Missing}, email : Emails \cup {Missing}]

\* The accounts, one browser and one request at a time: every registration,
\* login and edit.
Next ==
    \/ \E c \in OneClient, a \in LoginArgs : Login(c, a)
    \/ \E c \in OneClient : Logout(c)
    \/ \E c \in OneClient : Profile(c)
    \/ \E c \in OneClient, a \in RegisterArgs : RegisterBegin(1, c, a)
    \/ RegisterCommit(1)
    \/ \E c \in OneClient, a \in EditArgs : EditBegin(1, c, a)
    \/ EditCommit(1)

Spec == InitAtHome /\ [][Next]_vars

\* The accounts under concurrent requests, over two names and two addresses.
RaceRegisterArgs == ValidRegisterArgs
RaceLoginArgs ==
    [email : {"alice@x.com", "bob@x.com"}, password : {"secret1"}, csrf : {CsrfToken(0)}]
    \cup {GetLogin}
RaceEditArgs == [username : {"alice", "bob"}, email : {"alice@x.com", "bob@x.com"}]

NextRace ==
    \/ \E c \in Clients, a \in RaceLoginArgs : Login(c, a)
    \/ \E w \in Workers, c \in Clients, a \in RaceRegisterArgs : RegisterBegin(w, c, a)
    \/ \E w \in Workers : RegisterCommit(w)
    \/ \E w \in Workers, c \in Clients, a \in RaceEditArgs : EditBegin(w, c, a)
    \/ \E w \in Workers : EditCommit(w)

SpecRace == InitStrictAtHome /\ [][NextRace]_vars

\* One account, one browser and the whole application: every handler,
\* restarts of the process and replayed cookies.  A registration, an edit
\* or an upload is served in one worker, one at a time, with the requests
\* that take one step, the restarts and the replays in between its steps.
SiteRegisterArgs == {[Alice EXCEPT !.csrf = CsrfToken(k)] : k \in Epochs}
SiteLoginArgs ==
    [email : {"alice@x.com"}, password : Passwords, csrf : {CsrfToken(k) : k \in Epochs}]
    \cup {GetLogin}
SiteEditArgs == {[username |-> "bob", email |-> "bob@x.com"],
                 [username |-> Missing, email |-> Missing]}
SiteFileParts == {NoFilePart, [filename |-> "", data |-> Junk]}
                 \cup [filename : {"cat.png"}, data : Payloads]

NextSite ==
    \/ \E c \in OneClient, a \in SiteLoginArgs : Login(c, a)
    \/ \E c \in OneClient : Logout(c)
    \/ \E c \in OneClient : Profile(c)
    \/ \E c \in OneClient, op \in GatedOps : LoginRequired(c, op)
    \/ \E c \in OneClient, a \in SiteRegisterArgs : RegisterBegin(1, c, a)
    \/ RegisterCommit(1)
    \/ \E c \in OneClient, a \in SiteEditArgs : EditBegin(1, c, a)
    \/ EditCommit(1)
    \/ \E c \in OneClient, f \in SiteFileParts : UploadBegin(1, c, f)
    \/ UploadWrite(1)
    \/ UploadOpen(1)
    \/ UploadRemove(1)
    \/ UploadSaveOpen(1)
    \/ UploadSave(1)
    \/ UploadRender(1)
    \/ Restart
    \/ \E c \in OneClient, t \in revoked : PresentCopy(c, t)

SpecSite == InitStrictAtHome /\ [][NextSite]_vars

\* One account and the upload handler under concurrent requests for one
\* filename, over every payload.
RaceFileParts == {NoFilePart, [filename |-> "", data |-> Junk]}
                 \cup [filename : {"cat.png"}, data : Payloads]
RaceSiteLoginArgs == {[email |-> "alice@x.com", password |-> "secret1",
                       csrf |-> CsrfToken(0)], GetLogin}

NextUpload ==
    \/ \E c \in OneClient : RegisterBegin(1, c, Alice)
    \/ RegisterCommit(1)
    \/ \E c \in OneClient, a \in RaceSiteLoginArgs : Login(c, a)
    \/ \E c \in OneClient : Logout(c)
    \/ \E w \in Workers, c \in OneClient, f \in RaceFileParts : UploadBegin(w, c, f)
    \/ \E w \in Workers : UploadWrite(w)
    \/ \E w \in Workers : UploadOpen(w)
    \/ \E w \in Workers : UploadRemove(w)
    \/ \E w \in Workers : UploadSaveOpen(w)
    \/ \E w \in Workers : UploadSave(w)
    \/ \E w \in Workers : UploadRender(w)

SpecUpload == InitStrictAtHome /\ [][NextUpload]_vars

\* One account and the upload handler, one request at a time, over every
\* filename.
NextNames ==
    \/ \E c \in OneClient : RegisterBegin(1, c, Alice)
    \/ RegisterCommit(1)
    \/ \E c \in OneClient, a \in RaceSiteLoginArgs : Login(c, a)
    \/ \E c \in OneClient : Logout(c)
    \/ \E c \in OneClient, f \in FileParts : UploadBegin(1, c, f)
    \/ UploadWrite(1)
    \/ UploadOpen(1)
    \/ UploadRemove(1)
    \/ UploadSaveOpen(1)
    \/ UploadSave(1)
    \/ UploadRender(1)

SpecNames == InitStrict /\ [][NextNames]_vars

\* ----------------------------------------------------------------- claims
\* The cookie of client c is no valid session: no _user_id, a signature of
\* another key, or no row for the id.
NoValidSession(c) ==
    jar[c].uid = 0 \/ jar[c].key /= key \/ jar[c].uid > Len(users)

\* The step is a request of client c to a view behind @login_required,
\* refused by the decorator or run by the view.
GatedRequest(c) ==
    \/ \E op \in GatedOps : LoginRequired(c, op)
    \/ Logout(c)
    \/ Profile(c)
    \/ \E w \in Workers, a \in EditArgs : EditBegin(w, c, a)
    \/ \E w \in Workers, f \in FileParts : UploadBegin(w, c, f)

SuccessFlash(r) == r.flash /= NoFlash /\ r.flash[1] = "success"
DangerFlash(r) == r.flash /= NoFlash /\ r.flash[1] = "danger"

\* C1: a request to upload, profile, edit_profile or logout that carries no
\* valid session is redirected to login and changes nothing: no file, no
\* user record, no request in progress, and no session is established (the
\* browser keeps its cookie, or gets an empty session for a cookie that did
\* not verify, and is as unauthenticated after the step as before).
C1_SessionGate ==
    [][\A c \in Clients :
         (NoValidSession(c) /\ GatedRequest(c))
         => /\ last'.view = "redirect:login"
            /\ ~last'.fault
            /\ UNCHANGED <<users, files, key, req>>
            /\ jar'[c] \in {jar[c], Token(0, key, FALSE)}
            /\ LoadUser(jar'[c], users', key') = 0
            /\ \A d \in Clients \ {c} : jar'[d] = jar[d]]_vars

\* C1 witness: an upload was refused for a cookie signed before a restart,
\* which is replaced by an empty session, with an account and files in
\* place.
C1_Witness ==
    /\ last = Unauthorized("upload")
    /\ key > 0 /\ jar["c1"] = Token(0, key, FALSE)
    /\ Len(users) > 0 /\ DOMAIN files /= {}

\* The response is that of a registration with a valid form, for an email
\* and a username no row held when it was submitted.
FreshRegistrationDone(r) ==
    /\ r.op = "register"
    /\ r.of /= Idle
    /\ r.of.fresh

\* C2 as claimed: a valid registration for an email and a username the table
\* does not hold creates a row, and a later login by an unauthenticated
\* client with that email and password (and a valid form) succeeds and
\* binds the session to the id of that row.
C2_LoginAfterRegister ==
    [][/\ FreshRegistrationDone(last')
          => /\ SuccessFlash(last')
             /\ CredentialsOK(users', Len(users'), last'.of.plain)
             /\ users'[Len(users')].email = last'.of.row.email
       /\ \A c \in Clients, a \in LoginArgs, id \in 1..Len(regs) :
            (/\ last'.op = "login"
             /\ CurrentUser(c) = 0
             /\ LoginFormErrors(a, OpenSession(jar[c], key), key) = {}
             /\ regs[id] = [email |-> a.email, password |-> a.password]
             /\ Login(c, a))
            => /\ SuccessFlash(last')
               /\ jar'[c].uid = id /\ jar'[c].key = key]_vars

\* The password p is not the one row i was registered with.
WrongPassword(i, p) == regs[i].password /= p

\* C3 as claimed: a login that fails because the email has no row and a
\* login with the email of a row and a password that is not the row's get
\* the same page and the same flash, and neither changes the session or
\* the table.
C3_LoginFailuresAlike ==
    [][\A c \in Clients, a \in LoginArgs :
         (/\ last'.op = "login"
          /\ CurrentUser(c) = 0
          /\ LoginFormErrors(a, OpenSession(jar[c], key), key) = {}
          /\ created
          /\ \/ FindByEmail(users, a.email) = 0
             \/ /\ FindByEmail(users, a.email) /= 0
                /\ WrongPassword(FindByEmail(users, a.email), a.password)
          /\ Login(c, a))
         => /\ last'.view = "login.html"
            /\ last'.flash = <<"danger", "Login failed. Check email and password.">>
            /\ ~last'.fault
            /\ UNCHANGED <<users, jar, key, files, req>>]_vars

\* No two rows share an email or a username.
UniqueKeys(tbl) ==
    \A i, j \in 1..Len(tbl) :
        i /= j => tbl[i].email /= tbl[j].email /\ tbl[i].username /= tbl[j].username

\* C4: after every step the table has no two rows with the same email or
\* username, and a register or edit_profile commit whose row would clash
\* with another row is rejected and leaves the table as it was.
C4_UniqueEmailAndUsername ==
    [][/\ UniqueKeys(users')
       /\ \A w \in Workers :
            /\ (/\ req[w].pc = "reg_commit"
                /\ \E i \in 1..Len(users) : Clash(users[i], req[w].row)
                /\ RegisterCommit(w))
               => users' = users /\ ~SuccessFlash(last')
            /\ (/\ req[w].pc = "edit_commit"
                /\ \E i \in 1..Len(users) :
                      i /= req[w].uid /\ Clash(users[i], Apply(users[req[w].uid], req[w].set))
                /\ EditCommit(w))
               => users' = users /\ ~SuccessFlash(last')]_vars

\* C4 witness: with two accounts, an edit that would have taken the other
\* account's email or username was rejected.
C4_Witness ==
    /\ last.op = "edit_profile" /\ DangerFlash(last)
    /\ Len(users) = 2
    /\ \E i \in 1..2 : i /= last.of.uid /\ Clash(users[i], Apply(users[last.of.uid], last.of.set))

\* C5 as claimed: once logout has completed for a cookie, a request that
\* carries that cookie is refused by the gate (until a new login issues it).
C5_LogoutRevokesCookie ==
    [][\A c \in Clients :
         (jar[c] \in revoked /\ GatedRequest(c)) => last'.view = "redirect:login"]_vars

\* C6 as claimed: no request ends in an unhandled exception.
C6_NoUnhandledFault == last.op /= "none" => ~last.fault

\* C7 as claimed: a registration whose email or username the table already
\* holds is answered with an error message (not an unhandled exception),
\* creates no row and changes no row and no session.
C7_DuplicateRegistrationReported ==
    [][\A w \in Workers :
         (/\ req[w].pc = "reg_commit"
          /\ \E i \in 1..Len(users) : Clash(users[i], req[w].row)
          /\ RegisterCommit(w))
         => /\ ~last'.fault /\ DangerFlash(last')
            /\ UNCHANGED <<users, jar>>]_vars

\* C8: an edit_profile to an email another row holds flashes the failure and
\* leaves the caller's row as it was (the username submitted with it is not
\* applied either); the identity read after the rollback, and the one a
\* later profile request shows, are the stored row.
C8_EditDuplicateEmailRolledBack ==
    [][/\ \A w \in Workers :
            (/\ req[w].pc = "edit_commit"
             /\ req[w].set.email /= Unchanged
             /\ \E j \in 1..Len(users) : j /= req[w].uid /\ users[j].email = req[w].set.email
             /\ EditCommit(w))
            => /\ DangerFlash(last') /\ ~last'.fault
               /\ users' = users
               /\ last'.shown = [username |-> users[req[w].uid].username,
                                 email |-> users[req[w].uid].email]
       /\ \A c \in Clients :
            (CurrentUser(c) /= 0 /\ Profile(c))
            => last'.shown = [username |-> users[jar[c].uid].username,
                              email |-> users[jar[c].uid].email]]_vars

\* C8 witness: an edit that asked for the other account's email, and for a
\* new username with it, has failed.
C8_Witness ==
    /\ last.op = "edit_profile" /\ DangerFlash(last)
    /\ last.of.set.email /= Unchanged /\ last.of.set.username /= Unchanged
    /\ \E j \in 1..Len(users) : j /= last.of.uid /\ users[j].email = last.of.set.email

\* The two paths of the spec's Storage Namer for filename n, and the
\* processed file the handler makes of an uploaded file.
RawPath(n) == "static/uploads/" \o n
ProcessedPath(n) == "static/processed/no_bg_" \o n
Transform(bytes) == EncodePNG(Remove(Load(Header(bytes), bytes)))
Images == {p \in Payloads : Decodable(Header(p))}

\* C9 as claimed: when an upload of X fails while the image is opened, its
\* background removed or the result saved, the raw file is at
\* upload_path(X), there is no file at processed_path(X), and the request is
\* answered as a failure.
C9_FailedUploadLeavesNoArtifact ==
    [][\A w \in Workers :
         (/\ req[w].pc \in {"upload_open", "upload_remove", "upload_save_open"}
          /\ (UploadOpen(w) \/ UploadRemove(w) \/ UploadSaveOpen(w))
          /\ req'[w] = Idle)
         => /\ last'.view /= "upload.html"
            /\ RawPath(req[w].filename) \in DOMAIN files'
            /\ ProcessedPath(req[w].filename) \notin DOMAIN files']_vars

\* C10 as claimed: of two registrations in progress at the same time with
\* the same email or username, the one that commits second never succeeds.
C10_RacingRegistrationsOneWinner ==
    [][\A w \in Workers :
         (/\ req[w].pc = "reg_commit"
          /\ req[w].rival /= 0
          /\ RegisterCommit(w))
         => users' = users /\ ~SuccessFlash(last')]_vars

\* C10 amended: the one that commits second does not succeed while the row
\* the first one created still has that email or username.
C10_RacingRegistrationsWhileHeld ==
    [][\A w \in Workers :
         (/\ req[w].pc = "reg_commit"
          /\ req[w].rival /= 0
          /\ Clash(users[req[w].rival], req[w].row)
          /\ RegisterCommit(w))
         => users' = users /\ ~SuccessFlash(last')]_vars

\* C10 witness: a registration that lost the race has been refused, and the
\* winner's row is the only one with its email and username.
C10_Witness ==
    /\ last.op = "register" /\ last.fault
    /\ last.of.rival /= 0
    /\ Clash(users[last.of.rival], last.of.row)

\* C11 as claimed: when two uploads of the same filename have run
\* concurrently and both have completed, the raw file is one request's
\* upload and the processed file is what its last writer wrote, which is the
\* processed form of one of the uploads: never merged or third content.
C11_LastWriterWins ==
    [][\A w \in Workers :
         (/\ req[w].pc = "upload_render" /\ req[w].raced
          /\ last.op = "upload" /\ last.view = "upload.html" /\ last.of.raced
          /\ UploadRender(w)
          /\ \A v \in Workers : req'[v].pc \notin UploadPcs)
         => /\ files'[RawPath(req[w].filename)] \in Payloads
            /\ files'[ProcessedPath(req[w].filename)] = EncodePNG(req[w].img)
            /\ files'[ProcessedPath(req[w].filename)] \in {Transform(p) : p \in Images}]_vars

\* C12 as claimed: a logout ends the session and changes neither the user
\* table nor the files; a logout request that directly follows it is no
\* error: it is answered as the first, by the redirect of the logout view
\* with no message of refusal, and leaves the session (absent), the table
\* and the files as they are.
C12_LogoutIdempotent ==
    [][\A c \in Clients :
         /\ (CurrentUser(c) /= 0 /\ Logout(c))
            => /\ LoadUser(jar'[c], users', key') = 0
               /\ ~last'.fault /\ last'.view = "redirect:login"
               /\ UNCHANGED <<users, files>>
         /\ (/\ last.op = "logout" /\ CurrentUser(c) = 0
             /\ (LoginRequired(c, "logout") \/ Logout(c)))
            => /\ jar'[c] = jar[c]
               /\ LoadUser(jar'[c], users', key') = 0
               /\ ~last'.fault /\ last'.view = "redirect:login"
               /\ last'.flash = NoFlash
               /\ UNCHANGED <<users, files>>]_vars

\* C13: an upload of X that found a processed file of an earlier upload of X
\* and ran with no other upload of X beside it has, when it is answered with
\* success, exactly its own bytes at the raw path and exactly their
\* processed form at the processed path; beside these two there are the
\* files that were there when the request arrived, each as it was then.
C13_ReuploadReplacesBoth ==
    [][\A w \in Workers :
         (/\ req[w].pc = "upload_render" /\ req[w].again /\ ~req[w].raced
          /\ UploadRender(w))
         => /\ last'.view = "upload.html"
            /\ files'[RawPath(req[w].filename)] = req[w].data
            /\ files'[ProcessedPath(req[w].filename)] = Transform(req[w].data)
            /\ DOMAIN files' = DOMAIN req[w].others
                                \cup {RawPath(req[w].filename),
                                      ProcessedPath(req[w].filename)}
            /\ \A q \in DOMAIN req[w].others : files'[q] = req[w].others[q]]_vars

\* C13 witness: cat.png has been uploaded again, with an image shorter than
\* the two-block file that was last uploaded under the name with success,
\* beside the two files of another upload.
C13_Witness ==
    /\ last.op = "upload" /\ last.view = "upload.html"
    /\ last.of.again /\ ~last.of.raced
    /\ last.of.filename = "cat.png" /\ last.of.data = ImageA
    /\ RawPath("my dog.png") \in DOMAIN last.of.others
    /\ files[RawPath("cat.png")] = ImageA
    /\ files[ProcessedPath("cat.png")] = Transform(ImageA)
    /\ files[ProcessedPath("my dog.png")] = Transform(ImageA)

\* C14 as claimed: a successful upload of X has its raw file at
\* static/uploads/X and its processed file at static/processed/no_bg_X, and
\* the two URLs it returns are served from exactly the two files written.
C14_ArtifactsAtDerivedPaths ==
    [][\A w \in Workers :
         (req[w].pc = "upload_render" /\ UploadRender(w))
         => /\ last'.view = "upload.html"
            /\ RawPath(req[w].filename) \in DOMAIN files'
            /\ ProcessedPath(req[w].filename) \in DOMAIN files'
            /\ files'[ProcessedPath(req[w].filename)] = EncodePNG(req[w].img)
            /\ ServedFrom(last'.urls.original_image_url)
                 = AbsPath(cwd, RawPath(req[w].filename))
            /\ ServedFrom(last'.urls.processed_image_url)
                 = AbsPath(cwd, ProcessedPath(req[w].filename))]_vars

\* C15 as claimed: every stored row has a username of 3 to 30 characters
\* and a well-formed email.
C15_StoredRecordsValid ==
    \A i \in 1..Len(users) :
        /\ LengthOK(users[i].username, MinUsername, MaxUsername)
        /\ IsEmail(users[i].email)

\* C16: a registration that succeeds adds one row, made of the submitted
\* username and email and a digest of the password, and logs nobody in: the
\* caller's session after the call is the unauthenticated session the
\* request arrived with, no other cookie changes, and neither do the files
\* or another row; the caller is sent to login.
C16_RegisterDoesNotLogIn ==
    [][\A w \in Workers :
         (/\ req[w].pc = "reg_commit"
          /\ RegisterCommit(w)
          /\ SuccessFlash(last'))
         => /\ req[w].sess.uid = 0
            /\ jar'[req[w].c] = req[w].sess
            /\ \A c \in Clients \ {req[w].c} : jar'[c] = jar[c]
            /\ \A c \in Clients : LoadUser(jar'[c], users', key') \in {0, CurrentUser(c)}
            /\ key' = key /\ files' = files
            /\ Len(users') = Len(users) + 1
            /\ \A i \in 1..Len(users) : users'[i] = users[i]
            /\ users'[Len(users')].username = req[w].row.username
            /\ users'[Len(users')].email = req[w].row.email
            /\ CheckPasswordHash(users'[Len(users')].password, req[w].plain)
            /\ last'.view = "redirect:login"]_vars

\* C16 witness: a second account has been registered and no browser holds
\* a session.
C16_Witness ==
    /\ last.op = "register" /\ SuccessFlash(last)
    /\ Len(users) = 2
    /\ \A c \in Clients : CurrentUser(c) = 0

\* C17: an upload request without a file part, or with an empty filename,
\* is answered with a danger flash and a redirect, and no file is written
\* and no processing started.
C17_NoFileSelectedWritesNothing ==
    [][\A w \in Workers, c \in Clients, f \in FileParts :
         (/\ f.filename \in {Missing, ""}
          /\ UploadBegin(w, c, f))
         => /\ last'.op = "upload"
            /\ last'.flash \in {<<"danger", "No file part">>,
                                <<"danger", "No selected file">>}
            /\ last'.view = "redirect:upload_image" /\ ~last'.fault
            /\ files' = files /\ req' = req]_vars

\* C17 witness: an upload with an empty filename was refused while files of
\* an earlier upload are stored.
C17_Witness ==
    /\ last.op = "upload" /\ last.flash = <<"danger", "No selected file">>
    /\ DOMAIN files /= {}

\* C18: edit_profile, at assignment and at commit, whether the commit
\* succeeds or fails, leaves every row but the caller's as it is, keeps the
\* number of rows, and leaves the caller's password digest as it is.
C18_EditTouchesOwnRowOnly ==
    [][\A w \in Workers :
         /\ (req[w].pc = "edit_commit" /\ EditCommit(w))
            => /\ Len(users') = Len(users)
               /\ \A i \in 1..Len(users) : i /= req[w].uid => users'[i] = users[i]
               /\ users'[req[w].uid].password = users[req[w].uid].password
         /\ (req[w] = Idle /\ req'[w].pc = "edit_commit") => users' = users]_vars

\* C18 witness: with two accounts, one edit has succeeded and the other
\* account still has the email it registered with.
C18_Witness ==
    /\ last.op = "edit_profile" /\ SuccessFlash(last)
    /\ Len(users) = 2
    /\ \E i \in 1..2 : i /= last.of.uid /\ users[i].email = regs[i].email
    /\ users[last.of.uid].email /= regs[last.of.uid].email

\* C19 as claimed: whenever no upload is in progress, every processed file
\* has its raw file, and is the processed form of the bytes now stored there.
C19_ArtifactPairConsistent ==
    (\A w \in Workers : req[w].pc \notin UploadPcs)
    => \A n \in Filenames :
         ProcessedPath(n) \in DOMAIN files
         => /\ RawPath(n) \in DOMAIN files
            /\ files[ProcessedPath(n)] = Transform(files[RawPath(n)])

====
